---- MODULE Spec2Model ----
(***************************************************************************)
(* Model of EXECUTIVEORDERS.py: the White House executive-action watcher.  *)
(* One run of main() is a chain of steps (load, two fetches, filter,       *)
(* notify loop, watermark update, save_state); the process can be killed   *)
(* between any two steps.  The state file and the listing pages outlive a  *)
(* run; everything else is the run's memory.                               *)
(***************************************************************************)
EXTENDS Integers, Sequences, FiniteSets, TLC

\* ------------------------------------------------------------------ bounds
MaxPosts == 3       \* posts on the two listing pages together
MaxFetchPosts == 3  \* posts on a page handed to fetch_whitehouse_list alone
MaxFetchItems == 2  \* largest MAX_ITEMS handed to fetch_whitehouse_list alone

\* --------------------------------------------------------------- constants
WHITEHOUSE_EO_URL == "executive-orders/"
WHITEHOUSE_PR_URL == "proclamations/"
Endpoints == {WHITEHOUSE_EO_URL, WHITEHOUSE_PR_URL}

\* MAX_ITEMS: the default of line 136, and 1, which truncates every listing
\* (0 and negative values give the listings of 1: the cap is tested after
\* the append, lines 96-105)
DEFAULT_MAX_ITEMS == 20
MaxItemsEnv == {1, DEFAULT_MAX_ITEMS}

TipoKeys == <<"Executive Order", "Proclamation">>
Tipos == {"Executive Order", "Proclamation"}

\* hrefs a title link can carry (after the "/"-prefix rewrite); "" is an
\* <a href=""> link
Urls == {"", "a", "b"}
NoKey == "<no key>"
Watermarks == Urls \cup {NoKey}

\* titles, one of each kind the pattern of line 88 tells apart, and what
\* re.search(...).group(1) gives on it: a number; a run of hyphens, which
\* [0-9\-]+ also accepts when a word character follows ("EO-based");
\* no match
None == "<None>"
Titles == {"EO 14000", "EO-based plan", "Fact Sheet"}
ReSearchGroup1(title) ==
    IF title = "EO 14000" THEN "14000"
    ELSE IF title = "EO-based plan" THEN "-"
    ELSE None

\* a post of a listing page: anchor = the title link exists
Posts ==
    {[anchor |-> TRUE, title |-> "EO 14000", href |-> u] : u \in Urls}
        \cup {[anchor |-> TRUE, title |-> "Fact Sheet", href |-> "n"]}

\* the posts above, a post whose title has hyphens for a number, and a post
\* without a title link
AllPosts ==
    Posts \cup {[anchor |-> TRUE, title |-> "EO-based plan", href |-> "d"],
                [anchor |-> FALSE, title |-> "Fact Sheet", href |-> "n"]}

\* ----------------------------------------------------------- value helpers
EmptyMap == [k \in Tipos |-> NoKey]
Maps == [Tipos -> Watermarks]

\* a Python value held in `state`: a dict, or any other JSON value
Dict(m) == [isdict |-> TRUE, map |-> m]
NonDict == [isdict |-> FALSE, map |-> EmptyMap]

\* content of a file: missing, unparseable text, a torn (partly written)
\* JSON text, a JSON value that is no object, or a JSON object
FileOf(kind, m) == [kind |-> kind, map |-> m]
Missing == FileOf("missing", EmptyMap)
Corrupt == FileOf("corrupt", EmptyMap)
Torn == FileOf("torn", EmptyMap)
NonObject == FileOf("nonobject", EmptyMap)
Object(m) == FileOf("object", m)
InitialFiles == {Missing, Corrupt, NonObject} \cup {Object(m) : m \in Maps}

Reverse(s) == [i \in 1..Len(s) |-> s[Len(s) + 1 - i]]

VARIABLES
    page,       \* Endpoints -> sequence of posts, newest first (the web site)
    max_items,  \* MAX_ITEMS of the environment
    file,       \* content of STATE_PATH
    tmp,        \* content of STATE_PATH + ".tmp"
    pc,         \* position of the run
    state,      \* main: state
    items,      \* main: items
    new_items,  \* main: new_items
    notified,   \* messages printed by notify() in this run, in order
    hookfail,   \* a webhook POST of this run raised
    saves,      \* calls of save_state in this run
    status,     \* status line printed by the run
    err,        \* exception that ended the run
    file0,      \* file as it was when the run started
    fresh       \* the previous run completed and the pages are as it saw them

vars == <<page, max_items, file, tmp, pc, state, items, new_items, notified,
          hookfail, saves, status, err, file0, fresh>>

\* ------------------------------------------------------------- load_state
load_state(f) ==
    IF f.kind = "missing" THEN Dict(EmptyMap)
    ELSE IF f.kind \in {"corrupt", "torn"} THEN Dict(EmptyMap)
    ELSE IF f.kind = "nonobject" THEN NonDict
    ELSE Dict(f.map)

\* --------------------------------------------------- fetch_whitehouse_list
TipoOf(U) == IF U = WHITEHOUSE_PR_URL THEN "Proclamation" ELSE "Executive Order"

\* variant of FetchLoop: the cap of lines 104-105 is missing
RECURSIVE FetchLoopNoCap(_, _, _, _)
FetchLoopNoCap(posts, out, U, max) ==
    IF posts = <<>> THEN out
    ELSE LET post == Head(posts) IN
         IF ~post.anchor THEN FetchLoopNoCap(Tail(posts), out, U, max)
         ELSE LET eo_number == ReSearchGroup1(post.title) IN
         IF eo_number = None THEN FetchLoopNoCap(Tail(posts), out, U, max)
         ELSE FetchLoopNoCap(Tail(posts),
                             Append(out, [title |-> post.title, url |-> post.href,
                                          eo_number |-> eo_number, tipo |-> TipoOf(U)]),
                             U, max)

RECURSIVE FetchLoop(_, _, _, _)
FetchLoop(posts, out, U, max) ==
    IF posts = <<>> THEN out
    ELSE LET post == Head(posts) IN
         IF ~post.anchor THEN FetchLoop(Tail(posts), out, U, max)
         ELSE LET eo_number == ReSearchGroup1(post.title) IN
         IF eo_number = None THEN FetchLoop(Tail(posts), out, U, max)
         ELSE LET out2 == Append(out, [title |-> post.title, url |-> post.href,
                                       eo_number |-> eo_number, tipo |-> TipoOf(U)]) IN
              IF Len(out2) >= max THEN out2
              ELSE FetchLoop(Tail(posts), out2, U, max)

fetch_whitehouse_list(U, max) == FetchLoop(page[U], <<>>, U, max)

\* ------------------------------------------------------------------- main
Init ==
    /\ page = [U \in Endpoints |-> <<>>]
    /\ max_items \in MaxItemsEnv
    /\ file \in InitialFiles
    /\ tmp = Missing
    /\ pc = "start"
    /\ state = Dict(EmptyMap)
    /\ items = <<>>
    /\ new_items = <<>>
    /\ notified = <<>>
    /\ hookfail = FALSE
    /\ saves = 0
    /\ status = "none"
    /\ err = "none"
    /\ file0 = file
    /\ fresh = FALSE

\* the site publishes a post at the top of a listing page (between runs)
Publish ==
    /\ pc = "start"
    /\ \E U \in Endpoints, p \in Posts :
         /\ Len(page[WHITEHOUSE_EO_URL]) + Len(page[WHITEHOUSE_PR_URL]) < MaxPosts
         /\ page' = [page EXCEPT ![U] = <<p>> \o @]
    /\ fresh' = FALSE
    /\ UNCHANGED <<max_items, file, tmp, pc, state, items, new_items, notified,
                   hookfail, saves, status, err, file0>>

\* line 139
Load ==
    /\ pc = "start"
    /\ state' = load_state(file)
    /\ pc' = "loaded"
    /\ UNCHANGED <<page, max_items, file, tmp, items, new_items, notified,
                   hookfail, saves, status, err, file0, fresh>>

\* lines 141 and 62-63: SESSION.get / raise_for_status may raise
FetchEO ==
    /\ pc = "loaded"
    /\ \/ /\ items' = fetch_whitehouse_list(WHITEHOUSE_EO_URL, max_items)
          /\ pc' = "fetched_eo"
          /\ err' = err
       \/ /\ items' = items
          /\ pc' = "failed"
          /\ err' = "fetch"
    /\ UNCHANGED <<page, max_items, file, tmp, state, new_items, notified,
                   hookfail, saves, status, file0, fresh>>

\* variant of FetchPR: the failure is caught and the run goes on with the
\* executive orders alone
FetchPRIsolated ==
    /\ pc = "fetched_eo"
    /\ \/ /\ items' = items \o fetch_whitehouse_list(WHITEHOUSE_PR_URL, max_items)
          /\ pc' = "fetched"
          /\ err' = err
       \/ /\ items' = items
          /\ pc' = "fetched"
          /\ err' = "fetch"
    /\ UNCHANGED <<page, max_items, file, tmp, state, new_items, notified,
                   hookfail, saves, status, file0, fresh>>

\* line 142
FetchPR ==
    /\ pc = "fetched_eo"
    /\ \/ /\ items' = items \o fetch_whitehouse_list(WHITEHOUSE_PR_URL, max_items)
          /\ pc' = "fetched"
          /\ err' = err
       \/ /\ items' = items
          /\ pc' = "failed"
          /\ err' = "fetch"
    /\ UNCHANGED <<page, max_items, file, tmp, state, new_items, notified,
                   hookfail, saves, status, file0, fresh>>

\* state.get(tipo_key, "")
LastSeen(m, k) == IF m[k] = NoKey THEN "" ELSE m[k]

TipoItems(its, k) == SelectSeq(its, LAMBDA it : it.tipo = k)

\* variant of ScanNew: the watermark item is skipped, the scan goes on
RECURSIVE ScanNewContinue(_, _)
ScanNewContinue(tipo_items, last_seen) ==
    IF tipo_items = <<>> THEN <<>>
    ELSE IF Head(tipo_items).url = last_seen
           THEN ScanNewContinue(Tail(tipo_items), last_seen)
    ELSE <<Head(tipo_items)>> \o ScanNewContinue(Tail(tipo_items), last_seen)

\* lines 154-157: collect until the url equals last_seen
RECURSIVE ScanNew(_, _)
ScanNew(tipo_items, last_seen) ==
    IF tipo_items = <<>> THEN <<>>
    ELSE IF Head(tipo_items).url = last_seen THEN <<>>
    ELSE <<Head(tipo_items)>> \o ScanNew(Tail(tipo_items), last_seen)

\* lines 149-157, over the keys in the order of the list literal
RECURSIVE FilterNew(_, _, _)
FilterNew(keys, its, m) ==
    IF keys = <<>> THEN <<>>
    ELSE ScanNew(TipoItems(its, Head(keys)), LastSeen(m, Head(keys)))
            \o FilterNew(Tail(keys), its, m)

\* variant of Filter: no early return when nothing is new
FilterNoReturn ==
    /\ pc = "fetched"
    /\ \/ /\ items = <<>>
          /\ status' = "no_items"
          /\ pc' = "done"
          /\ UNCHANGED <<new_items, err>>
       \/ /\ items # <<>>
          /\ ~state.isdict
          /\ err' = "state"
          /\ pc' = "failed"
          /\ UNCHANGED <<new_items, status>>
       \/ /\ items # <<>>
          /\ state.isdict
          /\ new_items' = FilterNew(TipoKeys, items, state.map)
          /\ status' = status
          /\ pc' = "notify"
          /\ err' = err
    /\ UNCHANGED <<page, max_items, file, tmp, state, items, notified,
                   hookfail, saves, file0, fresh>>

\* variant of Filter: no return on an empty item list (lines 144-146 dropped)
FilterNoItemsCheck ==
    /\ pc = "fetched"
    /\ \/ /\ ~state.isdict
          /\ err' = "state"
          /\ pc' = "failed"
          /\ UNCHANGED <<new_items, status>>
       \/ /\ state.isdict
          /\ new_items' = FilterNew(TipoKeys, items, state.map)
          /\ IF new_items' = <<>>
               THEN status' = "no_news" /\ pc' = "done"
               ELSE status' = status /\ pc' = "notify"
          /\ err' = err
    /\ UNCHANGED <<page, max_items, file, tmp, state, items, notified,
                   hookfail, saves, file0, fresh>>

\* lines 144-162
Filter ==
    /\ pc = "fetched"
    /\ \/ /\ items = <<>>
          /\ status' = "no_items"
          /\ pc' = "done"
          /\ UNCHANGED <<new_items, err>>
       \/ /\ items # <<>>
          /\ ~state.isdict          \* state.get raises AttributeError
          /\ err' = "state"
          /\ pc' = "failed"
          /\ UNCHANGED <<new_items, status>>
       \/ /\ items # <<>>
          /\ state.isdict
          /\ new_items' = FilterNew(TipoKeys, items, state.map)
          /\ IF new_items' = <<>>
               THEN status' = "no_news" /\ pc' = "done"
               ELSE status' = status /\ pc' = "notify"
          /\ err' = err
    /\ UNCHANGED <<page, max_items, file, tmp, state, items, notified,
                   hookfail, saves, file0, fresh>>

\* format_alert: the fields of the message that identify the item
format_alert(it) == [tipo |-> it.tipo, enlace |-> it.url]

\* variant of Notify: the exception of the POST leaves notify()
NotifyPropagates ==
    /\ pc = "notify"
    /\ Len(notified) < Len(new_items)
    /\ notified' = Append(notified, format_alert(Reverse(new_items)[Len(notified) + 1]))
    /\ \E raised \in BOOLEAN :
         /\ hookfail' = (hookfail \/ raised)
         /\ pc' = IF raised THEN "failed" ELSE pc
         /\ err' = IF raised THEN "webhook" ELSE err
    /\ UNCHANGED <<page, max_items, file, tmp, state, items, new_items,
                   saves, status, file0, fresh>>

\* variant of Notify: the loop runs over new_items, not reversed(new_items)
NotifyListingOrder ==
    /\ pc = "notify"
    /\ Len(notified) < Len(new_items)
    /\ notified' = Append(notified, format_alert(new_items[Len(notified) + 1]))
    /\ \E raised \in BOOLEAN : hookfail' = (hookfail \/ raised)
    /\ UNCHANGED <<page, max_items, file, tmp, pc, state, items, new_items,
                   saves, status, err, file0, fresh>>

\* lines 165-168 and notify(): one pass of the loop; the POST may raise,
\* which notify() catches
Notify ==
    /\ pc = "notify"
    /\ Len(notified) < Len(new_items)
    /\ notified' = Append(notified, format_alert(Reverse(new_items)[Len(notified) + 1]))
    /\ \E raised \in BOOLEAN : hookfail' = (hookfail \/ raised)
    /\ UNCHANGED <<page, max_items, file, tmp, pc, state, items, new_items,
                   saves, status, err, file0, fresh>>

\* variant of UpdatedMap: the last new item of the run, whatever its tipo
RECURSIVE UpdatedMapAnyTipo(_, _, _)
UpdatedMapAnyTipo(keys, m, new) ==
    IF keys = <<>> THEN m
    ELSE LET m2 == IF new # <<>>
                     THEN [m EXCEPT ![Head(keys)] = new[Len(new)].url]
                     ELSE m
         IN UpdatedMapAnyTipo(Tail(keys), m2, new)

\* lines 171-174
RECURSIVE UpdatedMap(_, _, _)
UpdatedMap(keys, m, new) ==
    IF keys = <<>> THEN m
    ELSE LET tipo_new_items == TipoItems(new, Head(keys))
             m2 == IF tipo_new_items # <<>>
                     THEN [m EXCEPT ![Head(keys)] =
                               tipo_new_items[Len(tipo_new_items)].url]
                     ELSE m
         IN UpdatedMap(Tail(keys), m2, new)

\* variant of UpdateState: the watermarks are saved from inside the loop
UpdateStateInLoop ==
    /\ pc = "notify"
    /\ Len(notified) >= 1
    /\ state' = Dict(UpdatedMap(TipoKeys, state.map, new_items))
    /\ pc' = "save"
    /\ UNCHANGED <<page, max_items, file, tmp, items, new_items, notified,
                   hookfail, saves, status, err, file0, fresh>>

UpdateState ==
    /\ pc = "notify"
    /\ Len(notified) = Len(new_items)
    /\ state' = Dict(UpdatedMap(TipoKeys, state.map, new_items))
    /\ pc' = "save"
    /\ UNCHANGED <<page, max_items, file, tmp, items, new_items, notified,
                   hookfail, saves, status, err, file0, fresh>>

\* variant of SaveOpen: the real path is opened for writing
SaveOpenInPlace ==
    /\ pc = "save"
    /\ saves' = saves + 1
    /\ file' = Torn
    /\ pc' = "tmp_open"
    /\ UNCHANGED <<page, max_items, tmp, state, items, new_items, notified,
                   hookfail, status, err, file0, fresh>>

\* save_state, lines 50-51: open(tmp, "w") truncates the temporary file
SaveOpen ==
    /\ pc = "save"
    /\ saves' = saves + 1
    /\ tmp' = Torn
    /\ pc' = "tmp_open"
    /\ UNCHANGED <<page, max_items, file, state, items, new_items, notified,
                   hookfail, status, err, file0, fresh>>

\* save_state, line 52 and the close of the with block
SaveDump ==
    /\ pc = "tmp_open"
    /\ tmp' = Object(state.map)
    /\ pc' = "tmp_written"
    /\ UNCHANGED <<page, max_items, file, state, items, new_items, notified,
                   hookfail, saves, status, err, file0, fresh>>

\* save_state, line 53, and line 178
SaveReplace ==
    /\ pc = "tmp_written"
    /\ file' = tmp
    /\ tmp' = Missing
    /\ status' = "updated"
    /\ pc' = "done"
    /\ UNCHANGED <<page, max_items, state, items, new_items, notified,
                   hookfail, saves, err, file0, fresh>>

Running == {"loaded", "fetched_eo", "fetched", "notify", "save", "tmp_open",
            "tmp_written"}

\* the process is killed between two steps
Crash ==
    /\ pc \in Running
    /\ pc' = "crashed"
    /\ err' = "killed"
    /\ UNCHANGED <<page, max_items, file, tmp, state, items, new_items,
                   notified, hookfail, saves, status, file0, fresh>>

\* the next invocation of the script
NewRun ==
    /\ pc \in {"done", "crashed", "failed"}
    /\ pc' = "start"
    /\ state' = Dict(EmptyMap)
    /\ items' = <<>>
    /\ new_items' = <<>>
    /\ notified' = <<>>
    /\ hookfail' = FALSE
    /\ saves' = 0
    /\ status' = "none"
    /\ err' = "none"
    /\ file0' = file
    /\ fresh' = (pc = "done")
    /\ UNCHANGED <<page, max_items, file, tmp>>

Next ==
    \/ Publish
    \/ Load
    \/ FetchEO
    \/ FetchPR
    \/ Filter
    \/ Notify
    \/ UpdateState
    \/ SaveOpen
    \/ SaveDump
    \/ SaveReplace
    \/ Crash
    \/ NewRun

Spec == Init /\ [][Next]_vars

\* ------------------------------------------- fetch_whitehouse_list by itself
\* every page of up to MaxFetchPosts posts, served at both addresses, and
\* every MAX_ITEMS from 0; one call of fetch_whitehouse_list
SeqsUpTo(S, n) == UNION {[1..k -> S] : k \in 0..n}

InitFetch ==
    /\ \E posts \in SeqsUpTo(AllPosts, MaxFetchPosts) :
          page = [U \in Endpoints |-> posts]
    /\ max_items \in 0..MaxFetchItems
    /\ file = Missing
    /\ tmp = Missing
    /\ pc = "start"
    /\ state = Dict(EmptyMap)
    /\ items = <<>>
    /\ new_items = <<>>
    /\ notified = <<>>
    /\ hookfail = FALSE
    /\ saves = 0
    /\ status = "none"
    /\ err = "none"
    /\ file0 = file
    /\ fresh = FALSE

ListPage(U) ==
    /\ pc = "start"
    /\ items' = fetch_whitehouse_list(U, max_items)
    /\ pc' = "listed"
    /\ UNCHANGED <<page, max_items, file, tmp, state, new_items, notified,
                   hookfail, saves, status, err, file0, fresh>>

NextFetch == \E U \in Endpoints : ListPage(U)

SpecFetch == InitFetch /\ [][NextFetch]_vars

\* ------------------------------------------------------------ properties
\* what the claims speak of, read off a state of the run
Listing(k) == TipoItems(items, k)
NewOf(k) == TipoItems(new_items, k)
NotifiedOf(k) == SelectSeq(notified, LAMBDA msg : msg.tipo = k)
PersistedWm(f, k) == IF f.kind = "object" THEN f.map[k] ELSE NoKey
PriorWm(k) == PersistedWm(file0, k)
Alerts(its) == [i \in 1..Len(its) |-> format_alert(its[i])]

\* the run is past the filter of lines 148-157
AfterFilter == {"notify", "save", "tmp_open", "tmp_written", "done"}

Min(S) == CHOOSE x \in S : \A y \in S : x <= y

\* the items of l that precede the first item whose url is w
PrefixBefore(l, w) ==
    LET hits == {i \in 1..Len(l) : l[i].url = w}
    IN IF hits = {} THEN l ELSE SubSeq(l, 1, Min(hits) - 1)

\* C1: after a completed run that found a new item of a category, the
\* persisted watermark of the category is the url of the first (newest) item
\* of the run's listing; with no new item of the category it is the prior one.
C1_WatermarkIsNewest ==
    (pc = "done" /\ status = "updated") =>
        \A k \in Tipos :
            PersistedWm(file, k) =
                IF NewOf(k) # <<>> THEN Listing(k)[1].url ELSE PriorWm(k)

\* C2: a run that follows a completed run and fetches the same listings
\* finds no new item, notifies nothing and leaves the state file as it was.
C2_SecondRunFindsNothing ==
    fresh => (new_items = <<>> /\ notified = <<>> /\ file = file0)

C4_AtomicPersistence ==
    /\ file.kind # "torn"
    /\ (pc \in {"save", "tmp_open", "tmp_written", "crashed"}) => file = file0
    /\ file = file0 \/ (pc = "done" /\ state.isdict /\ file = Object(state.map))

C4_Witness ==
    /\ pc = "crashed"
    /\ saves = 1
    /\ tmp.kind = "torn"
    /\ file0.kind = "object"
    /\ file = file0

C6_SaveAfterNotify ==
    (Len(notified) < Len(new_items)) => (saves = 0 /\ file = file0)

C6_Witness ==
    /\ pc = "crashed"
    /\ Len(notified) >= 1
    /\ Len(notified) < Len(new_items)
    /\ file = file0

\* the watermark a run leaves for a category, from that category's listing
\* and prior watermark alone
WmAfter(l, w) ==
    LET new == PrefixBefore(l, IF w = NoKey THEN "" ELSE w)
    IN IF new = <<>> THEN w ELSE new[Len(new)].url

\* C7: after a completed run the persisted watermark of each category is a
\* function of that category's listing and prior watermark only; a category
\* without new items keeps its watermark.
C7_CategoryIsolation ==
    (pc = "done") =>
        \A k \in Tipos :
            /\ PersistedWm(file, k) = WmAfter(Listing(k), PriorWm(k))
            /\ (NewOf(k) = <<>>) => PersistedWm(file, k) = PriorWm(k)

C7_Witness ==
    /\ pc = "done"
    /\ status = "updated"
    /\ NewOf("Executive Order") # <<>>
    /\ NewOf("Proclamation") = <<>>
    /\ Listing("Proclamation") # <<>>
    /\ PriorWm("Proclamation") # PersistedWm(file, "Executive Order")

\* C8: a webhook failure does not end the run: the run still prints every
\* message and saves the mapping it would have saved without the failure.
C8_WebhookFailureSwallowed ==
    hookfail =>
        /\ pc # "failed"
        /\ (pc = "notify" /\ Len(notified) < Len(new_items)) => ENABLED Notify
        /\ (pc = "done") =>
              /\ Len(notified) = Len(new_items)
              /\ file = Object(UpdatedMap(TipoKeys, load_state(file0).map, new_items))

C8_Witness ==
    /\ pc = "done"
    /\ hookfail
    /\ Len(notified) >= 2

\* C9: load_state returns a mapping whatever the state file holds, and no
\* content of the state file makes the run fail.
C9_LoadAlwaysMapping ==
    state.isdict /\ err # "state"

\* C10: when the loaded state has no watermark for a category, every item of
\* the category's listing is new and the run prints a message for each.
C10_NoWatermarkAllNew ==
    (pc \in AfterFilter) =>
        \A k \in Tipos :
            (load_state(file0).map[k] = NoKey) =>
                /\ NewOf(k) = Listing(k)
                /\ (pc # "notify") => Len(NotifiedOf(k)) = Len(Listing(k))


\* C11: when the fetch of either listing fails, the error leaves main(): the
\* run has failed, has printed no message for any category, has not called
\* save_state and has left the state file as it was.
C11_FetchFailureAbortsRun ==
    (err = "fetch") =>
        (pc = "failed" /\ notified = <<>> /\ saves = 0 /\ file = file0)

\* the proclamations fetch failed after the executive orders were fetched
\* and had new items
C11_Witness ==
    /\ pc = "failed"
    /\ err = "fetch"
    /\ state.isdict
    /\ FilterNew(TipoKeys, items, state.map) # <<>>


\* the posts of a page that have a title link and a title the pattern matches
Kept(posts) ==
    SelectSeq(posts, LAMBDA post : post.anchor /\ ReSearchGroup1(post.title) # None)

UrlsOf(its) == [i \in 1..Len(its) |-> its[i].url]
HrefsOf(posts) == [i \in 1..Len(posts) |-> posts[i].href]

\* C12: for every page and every max_items >= 0, fetch_whitehouse_list
\* returns at most max_items items, the first kept posts in page order.
C12_AtMostMaxItems ==
    (pc = "listed") =>
        LET kept == Kept(page[WHITEHOUSE_EO_URL])
            n == IF Len(kept) < max_items THEN Len(kept) ELSE max_items
        IN /\ Len(items) <= max_items
           /\ UrlsOf(items) = HrefsOf(SubSeq(kept, 1, n))


\* both listings of the run have been fetched
Fetched == pc \in AfterFilter \/ (pc = "failed" /\ err = "state")

\* C13: a category whose listing is empty has no new item, gets no message
\* and keeps its persisted watermark, whatever that is; a run with no item
\* at all ends normally with the no-items status, and no failure of the
\* filter happens without an item.
C13_EmptyListing ==
    Fetched =>
        /\ \A k \in Tipos :
              (Listing(k) = <<>>) =>
                  /\ NewOf(k) = <<>>
                  /\ NotifiedOf(k) = <<>>
                  /\ PersistedWm(file, k) = PriorWm(k)
        /\ (items = <<>>) => (pc = "done" /\ status = "no_items")
        /\ (pc = "failed") => items # <<>>

\* the executive-orders page has posts but none is kept, its watermark is
\* set, and the run saved a new proclamation watermark
C13_Witness ==
    /\ pc = "done"
    /\ status = "updated"
    /\ page[WHITEHOUSE_EO_URL] # <<>>
    /\ Listing("Executive Order") = <<>>
    /\ PriorWm("Executive Order") = "a"
    /\ file # file0


\* the title carries an order or proclamation number
HasNumber(title) == title = "EO 14000"

\* C14: no post whose title lacks an order/proclamation number is in the
\* output of fetch_whitehouse_list, wherever it sits on the page.
C14_OnlyNumberedTitles ==
    \A i \in 1..Len(items) : HasNumber(items[i].title)


EndpointOf(k) == IF k = "Proclamation" THEN WHITEHOUSE_PR_URL ELSE WHITEHOUSE_EO_URL
KeptOf(k) == Kept(page[EndpointOf(k)])

\* the kept posts of a category beyond the first max_items, by position;
\* a post counts by its url when no post inside the window has that url
Overflow(k) ==
    {j \in 1..Len(KeptOf(k)) :
        /\ j > max_items
        /\ \A i \in 1..Len(KeptOf(k)) : i <= max_items => KeptOf(k)[i].href # KeptOf(k)[j].href}

NoOverflowNotified ==
    \A n \in 1..Len(notified) : \A j \in Overflow(notified[n].tipo) :
        notified[n].enlace # KeptOf(notified[n].tipo)[j].href

IsSuffix(s, t) == Len(s) <= Len(t) /\ s = SubSeq(t, Len(t) - Len(s) + 1, Len(t))

\* C15: the kept posts beyond the first max_items of a category get no
\* message in a run; the site only adds posts at the front, so a post
\* beyond the window stays beyond it, and gets no message in any later run.
C15_TruncationLoss ==
    [][/\ (notified' = <<>>) \/ NoOverflowNotified'
       /\ (page' = page) \/ \A k \in Tipos : IsSuffix(KeptOf(k), KeptOf(k)')]_vars

\* two posts newer than the watermark, a window of one: the run has printed
\* its one message and saved
C15_Witness ==
    /\ pc = "done"
    /\ status = "updated"
    /\ max_items = 1
    /\ Overflow("Executive Order") # {}
    /\ \A j \in 1..Len(KeptOf("Executive Order")) :
          KeptOf("Executive Order")[j].href # LastSeen(load_state(file0).map, "Executive Order")
    /\ Len(NotifiedOf("Executive Order")) = 1


\* C16: with both listings non-empty and unchanging, the runs reach, after
\* finitely many of them, runs that find nothing new with each persisted
\* watermark at the url of the newest item of its listing.  A run that ends
\* with the state file as it found it is repeated by every later run over
\* the same listings, so the claim needs every such run to be one that
\* found nothing new and has the watermarks at the newest urls.
C16_FixpointIsConverged ==
    (/\ pc \in {"done", "failed"}
     /\ err # "fetch"
     /\ file = file0
     /\ \A k \in Tipos : Listing(k) # <<>>)
        => /\ pc = "done"
           /\ status = "no_news"
           /\ \A k \in Tipos : PersistedWm(file, k) = Listing(k)[1].url


\* position of the first (newest) kept post of a category with url u
InPage(k, u) == \E j \in 1..Len(KeptOf(k)) : KeptOf(k)[j].href = u
Rank(k, u) == Min({j \in 1..Len(KeptOf(k)) : KeptOf(k)[j].href = u})

\* C17: the site only adds posts at the front; when a run replaces the
\* persisted watermark of a category, and the old one is a post of the
\* page, the new one is a post of the page nearer the front.  The state
\* file is as the run found it in every other state, crashes included.
C17_WatermarkMonotone ==
    \A k \in Tipos :
        LET w0 == PriorWm(k)
            w1 == PersistedWm(file, k)
        IN (w1 # w0 /\ w0 # NoKey /\ InPage(k, w0)) =>
               (InPage(k, w1) /\ Rank(k, w1) < Rank(k, w0))

C17_Witness ==
    /\ pc = "done"
    /\ status = "updated"
    /\ PriorWm("Executive Order") # NoKey
    /\ InPage("Executive Order", PriorWm("Executive Order"))
    /\ Rank("Executive Order", PriorWm("Executive Order")) = 3
    /\ PersistedWm(file, "Executive Order") # PriorWm("Executive Order")


WasNotified(it) == \E n \in 1..Len(notified) : notified[n] = format_alert(it)

====
